---- MODULE Spec2Model ----
(***************************************************************************)
(* The connection broker of code-server: WebSocketServer.handleWebSocket,  *)
(* WebSocketServer.connect and WebSocketServer.disposeOldOfflineConnections*)
(* (src/lib/vscode/src/vs/server/connectionHandler.ts).                    *)
(*                                                                         *)
(* One physical socket is one connection attempt.  The handler of a socket *)
(* runs on the event loop: it is atomic between its await points, which    *)
(* are `await protocol.handshake()` (line 73) and                          *)
(* `await connection.spawn()` (line 133).  A logical connection is named   *)
(* by the socket whose attempt constructed it.                             *)
(*                                                                         *)
(* In front of the broker stand the upgrade handler of the HTTP server     *)
(* (src/unnamed/part_001) and createReponseHeaders, which computes the     *)
(* upgrade response from the request headers (src/unnamed/part_000).       *)
(***************************************************************************)
EXTENDS Integers, Sequences, FiniteSets, TLC

\* ---------------------------------------------------------------- bounds
MaxSockets == 3
MaxTokens == 3
MaxRetention == 1

Sockets == 1..MaxSockets
Tokens == 1..MaxTokens

\* ------------------------------------------------------------- constants
\* private readonly maxExtraOfflineConnections = 0;
maxExtraOfflineConnections == 0

\* -------------------------------------------------------------- the hello
\* ConnectionType as the hello may carry it: "Missing" is an absent (falsy)
\* desiredConnectionType, "Other" a value outside the enum.
Management == "Management"
ExtensionHost == "ExtensionHost"
Tunnel == "Tunnel"
DesiredTypes == {"Missing", Management, ExtensionHost, Tunnel, "Other"}

\* message.commit: the build the client was made from.  product.commit is
\* the server's, NoCommit when the build carries none.
NoCommit == ""
Commits == {"abc"}
ServerVersions == {NoCommit, "abc", "def"}

Hello == [commit : Commits,
          desiredConnectionType : DesiredTypes,
          reconnectionToken : Tokens,
          reconnection : BOOLEAN]

NoHello == [commit |-> NoCommit, desiredConnectionType |-> "Missing",
            reconnectionToken |-> 0, reconnection |-> FALSE]

NoConn == 0

VARIABLES
    pc,           \* per socket: position of its handler
    hello,        \* per socket: the hello its handshake produced
    outcome,      \* per socket: how its attempt ended
    socket,       \* per socket: "unused", "open" or "closed"
    connections,  \* Map<ConnectionType, Map<string, Connection>>, insertion ordered
    conn,         \* per logical connection: lifecycle state and bound socket
    created,      \* logical connections in the order they were constructed
    fired,        \* per socket: onDidClientConnect events fired with its protocol
    evicted,      \* connections dispose('old') was called on, last pass, in order
    found,        \* per socket: the entry line 88 found, and its state then
    retention,    \* this.maxExtraOfflineConnections
    serverVersion,\* product.commit
    warned,       \* logService.warn was called by line 78
    request,      \* the request of the last upgrade event
    response      \* what the upgrade handler wrote to the socket of that request

vars == <<pc, hello, outcome, socket, connections, conn, created, fired,
          evicted, found, retention, serverVersion, warned, request, response>>

\* What connect never touches: the server's build and the upgrade exchange.
upgradeVars == <<serverVersion, request, response>>

\* ------------------------------------------------- Map<string, Connection>
\* A bucket is the sequence of its entries in insertion order, which is the
\* order Map.prototype.values() iterates in.
Entry(token, c) == [token |-> token, conn |-> c]

MapHas(bucket, token) == \E i \in 1..Len(bucket) : bucket[i].token = token

MapGet(bucket, token) ==
    IF MapHas(bucket, token)
    THEN (CHOOSE e \in {bucket[i] : i \in 1..Len(bucket)} : e.token = token).conn
    ELSE NoConn

\* Map.set: an existing key keeps its position, a new key is appended.
MapSet(bucket, token, c) ==
    IF MapHas(bucket, token)
    THEN [i \in 1..Len(bucket) |->
             IF bucket[i].token = token THEN Entry(token, c) ELSE bucket[i]]
    ELSE Append(bucket, Entry(token, c))

MapDelete(bucket, token) == SelectSeq(bucket, LAMBDA e : e.token # token)

MapValues(bucket) == [i \in 1..Len(bucket) |-> bucket[i].conn]

\* getCachedConnectionMap: the bucket of a type is created on first use.
getCachedConnectionMap(conns, type) ==
    IF type \in DOMAIN conns THEN conns ELSE conns @@ (type :> <<>>)

\* ------------------------------------------------------ logical connection
\* Lifecycle of a logical connection: "none" before it is constructed,
\* "Connecting" while its worker is being spawned, then "Online", "Offline"
\* (connection.offline is defined) and "Closed" (disposed).  sock is the
\* socket the connection is bound to, 0 when it has none (its socket closed).
NoConnection == [state |-> "none", sock |-> 0]

\* The registry, the connections and the sockets, as one value the
\* synchronous parts of connect transform.
World(conns, cn, sk) == [connections |-> conns, conn |-> cn, socket |-> sk]

\* connection.dispose(reason): closes the connection and its socket and
\* fires onClose, whose listener (line 142) deletes the connection's token
\* from the bucket the connection was registered in.
dispose(w, hl, c) ==
    IF w.conn[c].state \notin {"Online", "Offline"}
    THEN w
    ELSE World([w.connections EXCEPT ![hl[c].desiredConnectionType] =
                    MapDelete(@, hl[c].reconnectionToken)],
               [w.conn EXCEPT ![c] = [state |-> "Closed", sock |-> 0]],
               IF w.conn[c].sock = 0 THEN w.socket
               ELSE [w.socket EXCEPT ![w.conn[c].sock] = "closed"])

RECURSIVE disposeAll(_, _, _)
disposeAll(w, hl, cs) ==
    IF cs = <<>> THEN w ELSE disposeAll(dispose(w, hl, Head(cs)), hl, Tail(cs))

\* connection.reconnect(protocol): the connection takes the new socket, the
\* previous one is released, and connection.offline becomes undefined.
reconnect(w, c, s) ==
    World(w.connections,
          [w.conn EXCEPT ![c] = [state |-> "Online", sock |-> s]],
          IF w.conn[c].sock \in {0, s} THEN w.socket
          ELSE [w.socket EXCEPT ![w.conn[c].sock] = "closed"])

\* ----------------------------------------- disposeOldOfflineConnections
\* The loop of lines 150-152 started at i = 1: the oldest is skipped.
disposeOldOfflineConnections_SkipsOldest(bucket, cn, k) ==
    LET offline == SelectSeq(MapValues(bucket),
                             LAMBDA c : cn[c].state = "Offline")
    IN  SubSeq(offline, 2, Len(offline) - k)

\* The pass without the filter of line 149: every value of the bucket counts,
\* offline or not.
disposeOldOfflineConnections_NoFilter(bucket, cn, k) ==
    SubSeq(MapValues(bucket), 1, Len(MapValues(bucket)) - k)

\* The connections dispose('old') is called on, in call order: the first
\* offline.length - maxExtraOfflineConnections offline values of the bucket.
disposeOldOfflineConnections(bucket, cn, k) ==
    LET offline == SelectSeq(MapValues(bucket),
                             LAMBDA c : cn[c].state = "Offline")
    IN  SubSeq(offline, 1, Len(offline) - k)

\* Lines 141-144 without line 141: the connection is never put in the map.
register_NoSet(w, hl, s, k) ==
    LET type == hl[s].desiredConnectionType
        old == disposeOldOfflineConnections(w.connections[type], w.conn, k)
    IN  [world |-> disposeAll(w, hl, old), evicted |-> old]

\* Lines 141-144: connections.set, connection.onClose(...delete), and the
\* eviction pass over the same bucket.
register(w, hl, s, k) ==
    LET type == hl[s].desiredConnectionType
        w1 == World([w.connections EXCEPT ![type] =
                         MapSet(@, hl[s].reconnectionToken, s)],
                    w.conn, w.socket)
        old == disposeOldOfflineConnections(w1.connections[type], w1.conn, k)
    IN  [world |-> disposeAll(w1, hl, old), evicted |-> old]

\* ---------------------------------------------------------------- connect
\* connect without lines 91-94: a reconnection is never handed to the entry.
connectBranch_NoReconnect(h, existing) ==
    IF h.desiredConnectionType = "Missing" THEN "UnknownConnectionType"
    ELSE IF h.reconnection THEN "StaleSession"
    ELSE IF existing # NoConn THEN "TokenCollision"
    ELSE CASE h.desiredConnectionType = Management -> "Management"
           [] h.desiredConnectionType = ExtensionHost -> "ExtensionHost"
           [] h.desiredConnectionType = Tunnel -> "tunnel"
           [] OTHER -> "UnknownConnectionType"

\* connect without lines 98-100: a reconnection to an unknown token goes on
\* to create a connection.
connectBranch_NoStaleCheck(h, existing) ==
    IF h.desiredConnectionType = "Missing" THEN "UnknownConnectionType"
    ELSE IF h.reconnection /\ existing # NoConn THEN "reconnect"
    ELSE IF existing # NoConn THEN "TokenCollision"
    ELSE CASE h.desiredConnectionType = Management -> "Management"
           [] h.desiredConnectionType = ExtensionHost -> "ExtensionHost"
           [] h.desiredConnectionType = Tunnel -> "tunnel"
           [] OTHER -> "UnknownConnectionType"

\* connect without lines 103-105: a token in use is registered again.
connectBranch_NoCollisionCheck(h, existing) ==
    IF h.desiredConnectionType = "Missing" THEN "UnknownConnectionType"
    ELSE IF h.reconnection /\ existing # NoConn THEN "reconnect"
    ELSE IF h.reconnection THEN "StaleSession"
    ELSE CASE h.desiredConnectionType = Management -> "Management"
           [] h.desiredConnectionType = ExtensionHost -> "ExtensionHost"
           [] h.desiredConnectionType = Tunnel -> "tunnel"
           [] OTHER -> "UnknownConnectionType"

\* connect with the Tunnel case handled as the Management case is: a
\* connection is made of the tunnel and registered under its token.
connectBranch_TunnelRegisters(h, existing) ==
    IF h.desiredConnectionType = "Missing" THEN "UnknownConnectionType"
    ELSE IF h.reconnection /\ existing # NoConn THEN "reconnect"
    ELSE IF h.reconnection THEN "StaleSession"
    ELSE IF existing # NoConn THEN "TokenCollision"
    ELSE CASE h.desiredConnectionType = Management -> "Management"
           [] h.desiredConnectionType = ExtensionHost -> "ExtensionHost"
           [] h.desiredConnectionType = Tunnel -> "Management"
           [] OTHER -> "UnknownConnectionType"

\* connect with lines 77-79 throwing where they log: a client of another
\* build is turned away.
connectBranch_VersionFatal(h, existing) ==
    IF serverVersion # NoCommit /\ h.commit # serverVersion
    THEN "UnknownConnectionType"
    ELSE IF h.desiredConnectionType = "Missing" THEN "UnknownConnectionType"
    ELSE IF h.reconnection /\ existing # NoConn THEN "reconnect"
    ELSE IF h.reconnection THEN "StaleSession"
    ELSE IF existing # NoConn THEN "TokenCollision"
    ELSE CASE h.desiredConnectionType = Management -> "Management"
           [] h.desiredConnectionType = ExtensionHost -> "ExtensionHost"
           [] h.desiredConnectionType = Tunnel -> "tunnel"
           [] OTHER -> "UnknownConnectionType"

\* The if-chain of connect (lines 83-139) for a hello and the entry the
\* lookup of line 88 found.
connectBranch(h, existing) ==
    IF h.desiredConnectionType = "Missing" THEN "UnknownConnectionType"
    ELSE IF h.reconnection /\ existing # NoConn THEN "reconnect"
    ELSE IF h.reconnection THEN "StaleSession"
    ELSE IF existing # NoConn THEN "TokenCollision"
    ELSE CASE h.desiredConnectionType = Management -> "Management"
           [] h.desiredConnectionType = ExtensionHost -> "ExtensionHost"
           [] h.desiredConnectionType = Tunnel -> "tunnel"
           [] OTHER -> "UnknownConnectionType"

Errors == {"HandshakeTimeout", "UnknownConnectionType", "StaleSession",
           "TokenCollision", "SpawnFailure"}

\* The registry after getCachedConnectionMap (line 87), which is not reached
\* when the type is missing (line 83 throws first).
bucketsAfterLookup(conns, h) ==
    IF h.desiredConnectionType = "Missing" THEN conns
    ELSE getCachedConnectionMap(conns, h.desiredConnectionType)

\* connections.get(protocol.reconnectionToken), line 88.
lookup(conns, h) ==
    IF h.desiredConnectionType = "Missing" THEN NoConn
    ELSE MapGet(bucketsAfterLookup(conns, h)[h.desiredConnectionType],
                h.reconnectionToken)

branchOf(h) == connectBranch(h, lookup(connections, h))

\* The hellos a handshake may produce.  A reconnection token is opaque and
\* chosen by the client: connect only compares tokens for equality, so a
\* token no hello carried before is named by the next unused number.
SeenTokens == {hello[r].reconnectionToken : r \in Sockets} \ {0}

FreshTokens ==
    {t \in Tokens \ SeenTokens : \A u \in Tokens \ SeenTokens : t <= u}

Hellos == {h \in Hello : h.reconnectionToken \in SeenTokens \cup FreshTokens}

\* ---------------------------------------------------- createReponseHeaders
\* Magic number defined by Websocket spec.
WEBSOCKET_MAGIC == "258EAFA5-E914-47DA-95CA-C5AB0DC85B11"

\* IncomingHttpHeaders: a function from the (lower-cased) names of the
\* headers the request carries to their values, as the client wrote them.
HeaderWith(name, values) == {<<>>} \cup {name :> v : v \in values}

UpgradeValues == {"websocket", "WebSocket", "h2c"}

SampleKey == "dGhlIHNhbXBsZSBub25jZQ=="

KeyValues == {SampleKey, "x3JJHMbDL1EzLkh9GBhXDw=="}

ExtensionValues ==
    {"permessage-deflate",
     "permessage-deflate; client_max_window_bits",
     "x-webkit-deflate-frame, permessage-deflate",
     "Permessage-Deflate",
     "PERMESSAGE-DEFLATE; client_max_window_bits",
     "x-webkit-deflate-frame",
     ""}

Headers ==
    {u @@ k @@ e : u \in HeaderWith("upgrade", UpgradeValues),
                   k \in HeaderWith("sec-websocket-key", KeyValues),
                   e \in HeaderWith("sec-websocket-extensions", ExtensionValues)}

\* String(value) and value + '...': a header the request does not carry
\* reads as undefined, which both turn into the text "undefined".
String(headers, name) ==
    IF name \in DOMAIN headers THEN headers[name] ELSE "undefined"

\* String.prototype.indexOf: the 0-based place of the first occurrence of
\* searchString in string, compared character by character, -1 when none.
indexOf(string, searchString) ==
    LET n == Len(searchString)
        at(i) == SubSeq(string, i, i + n - 1) = searchString
        places == {i \in 1..(Len(string) - n + 1) : at(i)}
    IN  IF places = {} THEN -1
        ELSE (CHOOSE i \in places : \A j \in places : i <= j) - 1

\* Array.prototype.join.
RECURSIVE join(_, _)
join(lines, separator) ==
    IF lines = <<>> THEN ""
    ELSE IF Len(lines) = 1 THEN lines[1]
    ELSE lines[1] \o separator \o join(Tail(lines), separator)

\* The digest taken in hex where base64 is asked for.
createHash_HexDigest(algorithm, data, encoding) ==
    "hex(" \o algorithm \o "(" \o data \o "))"

\* createHash(algorithm).update(data).digest(encoding).  The digest is kept
\* symbolic: a text that names the algorithm, the data and the encoding, so
\* that two digests are equal exactly when all three are.
createHash(algorithm, data, encoding) ==
    encoding \o "(" \o algorithm \o "(" \o data \o "))"

createReponseHeaders(incomingHeaders) ==
    LET acceptKey == String(incomingHeaders, "sec-websocket-key")
        hash == createHash("sha1", acceptKey \o WEBSOCKET_MAGIC, "base64")
        responseHeaders == <<"HTTP/1.1 101 Web Socket Protocol Handshake",
                             "Upgrade: WebSocket",
                             "Connection: Upgrade",
                             "Sec-WebSocket-Accept: " \o hash>>
        permessageDeflate ==
            indexOf(String(incomingHeaders, "sec-websocket-extensions"),
                    "permessage-deflate") # -1
        pushed == IF permessageDeflate
                  THEN Append(responseHeaders,
                              "Sec-WebSocket-Extensions: permessage-deflate; server_max_window_bits=15")
                  ELSE responseHeaders
    IN  [responseHeaders |-> join(pushed, "\r\n") \o "\r\n\r\n",
         permessageDeflate |-> permessageDeflate]

\* ---------------------------------------------------------------- upgrade
\* An upgrade event: the headers of the request, req.url ("" when the
\* request has none), and whether parseQueryConnectionOptions accepts the
\* query of the url or throws.
UpgradeRequest == [headers : Headers, url : {"", "/"}, parses : BOOLEAN]

NoRequest == [headers |-> <<>>, url |-> "", parses |-> FALSE]

NoResponse == [written |-> "", permessageDeflate |-> FALSE]

\* The requests the upgrade handler is driven with: no extensions header,
\* one key or none.
UpgradeRequests ==
    {req \in UpgradeRequest :
        req.headers \in {u @@ k : u \in HeaderWith("upgrade", UpgradeValues),
                                  k \in HeaderWith("sec-websocket-key",
                                                   {SampleKey})}}

\* The handler without the url check of line 25.
badRequest_NoUrlCheck(req) ==
    \/ "upgrade" \notin DOMAIN req.headers
    \/ req.headers["upgrade"] # "websocket"
    \/ ~req.parses

\* Lines 25-29 and 36-42 of the upgrade handler: the request is refused.
badRequest(req) ==
    \/ "upgrade" \notin DOMAIN req.headers
    \/ req.headers["upgrade"] # "websocket"
    \/ req.url = ""
    \/ ~req.parses

\* ------------------------------------------------------------------ Init
TypeOK ==
    /\ pc \in [Sockets -> {"idle", "handshake", "spawning", "done"}]
    /\ hello \in [Sockets -> Hello \cup {NoHello}]
    /\ outcome \in [Sockets -> {"none", "created", "reconnected", "tunnel",
                                "BadRequest"} \cup Errors]
    /\ socket \in [Sockets -> {"unused", "open", "closed"}]
    /\ DOMAIN connections \subseteq DesiredTypes \ {"Missing"}
    /\ conn \in [Sockets -> [state : {"none", "Connecting", "Online",
                                      "Offline", "Closed"},
                             sock : 0..MaxSockets]]
    /\ fired \in [Sockets -> Nat]
    /\ found \in [Sockets -> [conn : 0..MaxSockets,
                              state : {"none", "Online", "Offline"}]]
    /\ retention \in Nat
    /\ serverVersion \in ServerVersions
    /\ warned \in BOOLEAN
    /\ request \in UpgradeRequest \cup {NoRequest}
    /\ response \in [written : STRING, permessageDeflate : BOOLEAN]

NotFound == [conn |-> NoConn, state |-> "none"]

\* What `let connection = connections.get(...)` held when connect read it.
Found(cn, c) ==
    IF c = NoConn THEN NotFound ELSE [conn |-> c, state |-> cn[c].state]

InitRest ==
    /\ pc = [s \in Sockets |-> "idle"]
    /\ hello = [s \in Sockets |-> NoHello]
    /\ outcome = [s \in Sockets |-> "none"]
    /\ socket = [s \in Sockets |-> "unused"]
    /\ connections = <<>>
    /\ conn = [s \in Sockets |-> NoConnection]
    /\ created = <<>>
    /\ fired = [s \in Sockets |-> 0]
    /\ evicted = <<>>
    /\ found = [s \in Sockets |-> NotFound]
    /\ warned = FALSE
    /\ response = NoResponse

\* The server and its clients are of the same build.
Init ==
    /\ InitRest
    /\ retention = maxExtraOfflineConnections
    /\ serverVersion \in ServerVersions \cap Commits
    /\ request = NoRequest

\* --------------------------------------------------------------- actions
\* Sockets are numbered in the order they arrive.
arrives(s) ==
    /\ pc[s] = "idle"
    /\ \A r \in Sockets : r < s => pc[r] # "idle"

\* A socket that waits for its hello holds no state but its position, so
\* the waiting sockets are interchangeable: among the waiting ones the
\* lowest is the one whose handshake ends next.
handshakeEnds(s) ==
    /\ pc[s] = "handshake"
    /\ \A r \in Sockets : r < s => pc[r] # "handshake"

\* Lines 62-65: the protocol is built on the socket and connect starts
\* waiting for the hello.
protocolStarts(s) ==
    /\ pc' = [pc EXCEPT ![s] = "handshake"]
    /\ socket' = [socket EXCEPT ![s] = "open"]

\* handleWebSocket, lines 61-65, called on a socket whose upgrade is done.
handleWebSocket(s) ==
    /\ arrives(s)
    /\ protocolStarts(s)
    /\ UNCHANGED <<hello, outcome, connections, conn, created, fired, evicted,
                   found, retention, warned, upgradeVars>>

\* A catch that tears down every open socket, not only the one that failed.
rejected_ClosesEverySocket(s, error, sk) ==
    /\ pc' = [pc EXCEPT ![s] = "done"]
    /\ outcome' = [outcome EXCEPT ![s] = error]
    /\ socket' = [r \in Sockets |-> IF sk[r] = "open" THEN "closed" ELSE sk[r]]

\* The upgrade handler, lines 24-52: a bad request is answered with 400 and
\* its socket ended; any other is answered with the response headers and
\* its socket handed to handleWebSocket.
upgrade(s) ==
    /\ arrives(s)
    /\ \E req \in UpgradeRequests :
          /\ request' = req
          /\ IF badRequest(req)
             THEN /\ response' = [written |-> "HTTP/1.1 400 Bad Request",
                                  permessageDeflate |-> FALSE]
                  /\ pc' = [pc EXCEPT ![s] = "done"]
                  /\ outcome' = [outcome EXCEPT ![s] = "BadRequest"]
                  /\ socket' = [socket EXCEPT ![s] = "closed"]
             ELSE /\ response' =
                         [written |->
                              createReponseHeaders(req.headers).responseHeaders,
                          permessageDeflate |->
                              createReponseHeaders(req.headers).permessageDeflate]
                  /\ protocolStarts(s)
                  /\ UNCHANGED outcome
    /\ UNCHANGED <<hello, connections, conn, created, fired, evicted, found,
                   retention, serverVersion, warned>>

\* A catch that swallows the error: the protocol is not disposed.
rejected_NoDispose(s, error, sk) ==
    /\ pc' = [pc EXCEPT ![s] = "done"]
    /\ outcome' = [outcome EXCEPT ![s] = error]
    /\ socket' = sk

\* The catch of handleWebSocket, lines 66-68: protocol.dispose(error.message)
\* ends the attempt and closes its socket.
rejected(s, error, sk) ==
    /\ pc' = [pc EXCEPT ![s] = "done"]
    /\ outcome' = [outcome EXCEPT ![s] = error]
    /\ socket' = [sk EXCEPT ![s] = "closed"]

\* Lines 75-79: a client of another build than the server's is logged.
versionMismatch(h) == serverVersion # NoCommit /\ h.commit # serverVersion

\* Line 73 resolved with message h: lines 75-88, up to the lookup.
connectStarts(s, h) ==
    /\ pc[s] = "handshake"
    /\ hello' = [hello EXCEPT ![s] = h]
    /\ warned' = (warned \/ versionMismatch(h))
    /\ found' = [found EXCEPT ![s] = Found(conn, lookup(connections, h))]

\* protocol.handshake() rejects: no hello arrived in time.
handshakeTimeout(s) ==
    /\ pc[s] = "handshake"
    /\ rejected(s, "HandshakeTimeout", socket)
    /\ UNCHANGED <<hello, connections, conn, created, fired, evicted, found,
                   retention, warned, upgradeVars>>

\* Lines 83-85, 96-105, 137-139: connect throws.
connectThrows(s) ==
    /\ pc[s] = "handshake"
    /\ \E h \in Hellos :
          /\ branchOf(h) \in Errors
          /\ connectStarts(s, h)
          /\ connections' = bucketsAfterLookup(connections, h)
          /\ rejected(s, branchOf(h), socket)
    /\ UNCHANGED <<conn, created, fired, evicted, retention, upgradeVars>>

\* Lines 91-94: return connection.reconnect(protocol).
connectReconnects(s) ==
    /\ pc[s] = "handshake"
    /\ \E h \in Hellos :
          /\ branchOf(h) = "reconnect"
          /\ connectStarts(s, h)
          /\ LET w == reconnect(World(connections, conn, socket),
                                lookup(connections, h), s)
             IN  /\ connections' = w.connections
                 /\ conn' = w.conn
                 /\ socket' = w.socket
    /\ pc' = [pc EXCEPT ![s] = "done"]
    /\ outcome' = [outcome EXCEPT ![s] = "reconnected"]
    /\ UNCHANGED <<created, fired, evicted, retention, upgradeVars>>

\* Lines 112-121 and 141-145: a ManagementConnection is constructed,
\* onDidClientConnect is fired, and the connection is registered.
connectManagement(s) ==
    /\ pc[s] = "handshake"
    /\ \E h \in Hellos :
          /\ branchOf(h) = "Management"
          /\ connectStarts(s, h)
          /\ LET r == register(World(bucketsAfterLookup(connections, h),
                                     [conn EXCEPT ![s] = [state |-> "Online",
                                                          sock |-> s]],
                                     socket),
                               [hello EXCEPT ![s] = h], s, retention)
             IN  /\ connections' = r.world.connections
                 /\ conn' = r.world.conn
                 /\ socket' = r.world.socket
                 /\ evicted' = r.evicted
    /\ fired' = [fired EXCEPT ![s] = @ + 1]
    /\ created' = Append(created, s)
    /\ pc' = [pc EXCEPT ![s] = "done"]
    /\ outcome' = [outcome EXCEPT ![s] = "created"]
    /\ UNCHANGED <<retention, upgradeVars>>

\* Lines 122-133: an ExtensionHostConnection is constructed and connect
\* suspends on `await connection.spawn()`.
connectExtensionHost(s) ==
    /\ pc[s] = "handshake"
    /\ \E h \in Hellos :
          /\ branchOf(h) = "ExtensionHost"
          /\ connectStarts(s, h)
          /\ connections' = bucketsAfterLookup(connections, h)
    /\ conn' = [conn EXCEPT ![s] = [state |-> "Connecting", sock |-> s]]
    /\ created' = Append(created, s)
    /\ pc' = [pc EXCEPT ![s] = "spawning"]
    /\ UNCHANGED <<outcome, socket, fired, evicted, retention, upgradeVars>>

\* Lines 135-136: return protocol.tunnel().
connectTunnel(s) ==
    /\ pc[s] = "handshake"
    /\ \E h \in Hellos :
          /\ branchOf(h) = "tunnel"
          /\ connectStarts(s, h)
          /\ connections' = bucketsAfterLookup(connections, h)
    /\ pc' = [pc EXCEPT ![s] = "done"]
    /\ outcome' = [outcome EXCEPT ![s] = "tunnel"]
    /\ UNCHANGED <<socket, conn, created, fired, evicted, retention, upgradeVars>>

HandshakeFail(s) == handshakeEnds(s) /\ handshakeTimeout(s)

ConnectReject(s) == handshakeEnds(s) /\ connectThrows(s)

ConnectReconnect(s) == handshakeEnds(s) /\ connectReconnects(s)

ConnectManagement(s) == handshakeEnds(s) /\ connectManagement(s)

ConnectExtensionHost(s) == handshakeEnds(s) /\ connectExtensionHost(s)

ConnectTunnel(s) == handshakeEnds(s) /\ connectTunnel(s)

\* connection.spawn() resolves: lines 134 and 141-145.
SpawnDone(s) ==
    /\ pc[s] = "spawning"
    /\ LET r == register(World(connections,
                               [conn EXCEPT ![s].state = "Online"], socket),
                         hello, s, retention)
       IN  /\ connections' = r.world.connections
           /\ conn' = r.world.conn
           /\ socket' = r.world.socket
           /\ evicted' = r.evicted
    /\ pc' = [pc EXCEPT ![s] = "done"]
    /\ outcome' = [outcome EXCEPT ![s] = "created"]
    /\ UNCHANGED <<hello, created, fired, found, retention, warned, upgradeVars>>

\* connection.spawn() rejects: the error reaches the catch of
\* handleWebSocket; the connection was never registered.
SpawnFail(s) ==
    /\ pc[s] = "spawning"
    /\ conn' = [conn EXCEPT ![s] = [state |-> "Closed", sock |-> 0]]
    /\ rejected(s, "SpawnFailure", socket)
    /\ UNCHANGED <<hello, connections, created, fired, evicted, found,
                   retention, warned, upgradeVars>>

\* The socket of an online connection drops (protocol.onSocketClose):
\* setOffline().
SocketClose(c) ==
    /\ conn[c].state = "Online"
    /\ conn' = [conn EXCEPT ![c] = [state |-> "Offline", sock |-> 0]]
    /\ socket' = [socket EXCEPT ![conn[c].sock] = "closed"]
    /\ UNCHANGED <<pc, hello, outcome, connections, created, fired, evicted,
                   found, retention, warned, upgradeVars>>

\* The client closes a connection explicitly, or the protocol is disposed:
\* connection.dispose().
Close(c) ==
    /\ conn[c].state \in {"Online", "Offline"}
    /\ LET w == dispose(World(connections, conn, socket), hello, c)
       IN  /\ connections' = w.connections
           /\ conn' = w.conn
           /\ socket' = w.socket
    /\ UNCHANGED <<pc, hello, outcome, created, fired, evicted, found,
                   retention, warned, upgradeVars>>

\* What the broker does once a socket was handed to it.
Broker(s) ==
    \/ HandshakeFail(s)
    \/ ConnectReject(s)
    \/ ConnectReconnect(s)
    \/ ConnectManagement(s)
    \/ ConnectExtensionHost(s)
    \/ ConnectTunnel(s)
    \/ SpawnDone(s)
    \/ SpawnFail(s)
    \/ SocketClose(s)
    \/ Close(s)

Next ==
    \E s \in Sockets :
        \/ handleWebSocket(s)
        \/ HandshakeFail(s)
        \/ ConnectReject(s)
        \/ ConnectReconnect(s)
        \/ ConnectManagement(s)
        \/ ConnectExtensionHost(s)
        \/ ConnectTunnel(s)
        \/ SpawnDone(s)
        \/ SpawnFail(s)
        \/ SocketClose(s)
        \/ Close(s)

Spec == Init /\ [][Next]_vars

\* The same broker for every retention count up to MaxRetention, for the
\* statements made of any configured count.
InitK ==
    /\ InitRest
    /\ retention \in 0..MaxRetention
    /\ serverVersion \in ServerVersions \cap Commits
    /\ request = NoRequest

SpecK == InitK /\ [][Next]_vars

\* The broker behind the upgrade handler of the HTTP server.
NextUpgrade == \E s \in Sockets : upgrade(s) \/ Broker(s)

SpecUpgrade == Init /\ [][NextUpgrade]_vars

\* The broker with the sockets' handshakes ending in any order, and with
\* what the event loop guarantees: protocol.handshake() settles, with a
\* hello or with its timeout, and connection.spawn() settles, and the
\* continuation of a settled await is run.
HandshakeSettles(s) ==
    \/ handshakeTimeout(s)
    \/ connectThrows(s)
    \/ connectReconnects(s)
    \/ connectManagement(s)
    \/ connectExtensionHost(s)
    \/ connectTunnel(s)

SpawnSettles(s) == SpawnDone(s) \/ SpawnFail(s)

NextLive ==
    \E s \in Sockets :
        \/ handleWebSocket(s)
        \/ HandshakeSettles(s)
        \/ SpawnSettles(s)
        \/ SocketClose(s)
        \/ Close(s)

Fairness ==
    \A s \in Sockets :
        WF_vars(HandshakeSettles(s)) /\ WF_vars(SpawnSettles(s))

SpecLive == Init /\ [][NextLive]_vars /\ Fairness

\* createReponseHeaders alone, for every set of headers a request may
\* carry: the response is computed for the headers of a request, and again
\* whenever asked, also after another request has arrived that carries the
\* same headers.
InitCodec ==
    /\ InitRest
    /\ retention = maxExtraOfflineConnections
    /\ serverVersion \in ServerVersions \cap Commits
    /\ request \in UpgradeRequest

ComputeResponse ==
    /\ response' =
           [written |-> createReponseHeaders(request.headers).responseHeaders,
            permessageDeflate |->
                createReponseHeaders(request.headers).permessageDeflate]
    /\ UNCHANGED <<pc, hello, outcome, socket, connections, conn, created,
                   fired, evicted, found, retention, serverVersion, warned,
                   request>>

SameHeaders ==
    /\ \E req \in UpgradeRequest :
          /\ req.headers = request.headers
          /\ request' = req
    /\ UNCHANGED <<pc, hello, outcome, socket, connections, conn, created,
                   fired, evicted, found, retention, serverVersion, warned,
                   response>>

NextCodec == ComputeResponse \/ SameHeaders

SpecCodec == InitCodec /\ [][NextCodec]_vars

\* The same broker for every build of the server: with no commit, with the
\* clients' commit, with another.
InitVersion ==
    /\ InitRest
    /\ retention = maxExtraOfflineConnections
    /\ serverVersion \in ServerVersions
    /\ request = NoRequest

SpecVersion == InitVersion /\ [][Next]_vars

\* ================================================================ claims
BucketOf(conns, type) == IF type \in DOMAIN conns THEN conns[type] ELSE <<>>

\* The connection registered under (type, token), NoConn when there is none.
EntryOf(conns, type, token) == MapGet(BucketOf(conns, type), token)

SameEntries(conns1, conns2) ==
    \A type \in DesiredTypes : BucketOf(conns1, type) = BucketOf(conns2, type)

Live(c) == conn[c].state \in {"Online", "Offline"}

OfflineEntries(conns, cn, type) ==
    SelectSeq(MapValues(BucketOf(conns, type)), LAMBDA c : cn[c].state = "Offline")

Range(seq) == {seq[i] : i \in 1..Len(seq)}

CreatedBefore(a, b) ==
    \E i, j \in 1..Len(created) : i < j /\ created[i] = a /\ created[j] = b

\* The step in which the handshake of socket s ends with a hello.
HelloProcessed(s) ==
    /\ pc[s] = "handshake"
    /\ pc'[s] # "handshake"
    /\ hello'[s] \in Hello

\* The step in which the connection of socket s is registered (lines 141-144).
Registered(s) == outcome[s] = "none" /\ outcome'[s] = "created"

\* The step in which connection.spawn() of socket s settles.
SpawnSettled(s) == pc[s] = "spawning" /\ pc'[s] = "done"

\* ---------------------------------------------------------------- C1
\* C1: two non-reconnection hellos with the same never-seen token never both
\* succeed: no state has two live logical connections created for the same
\* (type, token).
C1_OneLiveConnectionPerToken ==
    \A a, b \in Sockets :
        (/\ a # b
         /\ Live(a)
         /\ Live(b)
         /\ hello[a].desiredConnectionType = hello[b].desiredConnectionType)
        => hello[a].reconnectionToken # hello[b].reconnectionToken

\* ---------------------------------------------------------------- C2
\* C2: a reconnection hello whose token matches an Offline entry of its type
\* gets that same connection back, bound to the new socket and Online; the
\* registry is unchanged, no connection is constructed, no worker is spawned
\* and onDidClientConnect is not fired.
C2_ReconnectRestoresSameConnection ==
    [][\A s \in Sockets :
          LET h == hello'[s]
              e == EntryOf(connections, h.desiredConnectionType,
                           h.reconnectionToken)
          IN  (/\ HelloProcessed(s)
               /\ h.reconnection
               /\ e # NoConn
               /\ conn[e].state = "Offline")
              => /\ outcome'[s] = "reconnected"
                 /\ pc'[s] = "done"
                 /\ connections' = connections
                 /\ conn' = [conn EXCEPT ![e] = [state |-> "Online", sock |-> s]]
                 /\ socket'[s] = "open"
                 /\ fired' = fired
                 /\ created' = created]_vars

C2_Witness ==
    \E s \in Sockets :
        /\ outcome[s] = "reconnected"
        /\ found[s].state = "Offline"
        /\ found[s].conn # s
        /\ conn[found[s].conn] = [state |-> "Online", sock |-> s]
        /\ EntryOf(connections, hello[s].desiredConnectionType,
                   hello[s].reconnectionToken) = found[s].conn
        /\ socket[s] = "open"
        /\ socket[found[s].conn] = "closed"

\* ---------------------------------------------------------------- C3
\* C3: a reconnection hello that names a type and whose token has no entry
\* in the bucket of that type fails with StaleSession: no entry is created,
\* no connection is constructed, onDidClientConnect is not fired and the
\* socket of the attempt is closed.
C3_UnknownTokenIsStale ==
    [][\A s \in Sockets :
          LET h == hello'[s]
          IN  (/\ HelloProcessed(s)
               /\ h.reconnection
               /\ h.desiredConnectionType # "Missing"
               /\ EntryOf(connections, h.desiredConnectionType,
                          h.reconnectionToken) = NoConn)
              => /\ outcome'[s] = "StaleSession"
                 /\ pc'[s] = "done"
                 /\ socket'[s] = "closed"
                 /\ SameEntries(connections', connections)
                 /\ conn' = conn
                 /\ fired' = fired
                 /\ created' = created]_vars

C3_Witness ==
    \E s, c \in Sockets :
        /\ outcome[s] = "StaleSession"
        /\ hello[s].reconnection
        /\ found[s] = NotFound
        /\ socket[s] = "closed"
        /\ EntryOf(connections, hello[s].desiredConnectionType,
                   hello[s].reconnectionToken) = NoConn
        /\ Live(c)
        /\ hello[c].desiredConnectionType = hello[s].desiredConnectionType

\* ---------------------------------------------------------------- C4
\* C4: a non-reconnection hello whose token has an entry of its type, Online
\* or Offline, fails with TokenCollision; the entry keeps its connection, its
\* socket and its state, and the new socket is closed.
C4_CollisionLeavesEntryAlone ==
    [][\A s \in Sockets :
          LET h == hello'[s]
              e == EntryOf(connections, h.desiredConnectionType,
                           h.reconnectionToken)
          IN  (/\ HelloProcessed(s)
               /\ ~h.reconnection
               /\ e # NoConn)
              => /\ outcome'[s] = "TokenCollision"
                 /\ pc'[s] = "done"
                 /\ socket'[s] = "closed"
                 /\ connections' = connections
                 /\ conn' = conn
                 /\ \A r \in Sockets \ {s} : socket'[r] = socket[r]
                 /\ fired' = fired
                 /\ created' = created]_vars

C4_Witness ==
    \E s, r \in Sockets :
        /\ outcome[s] = "TokenCollision"
        /\ outcome[r] = "TokenCollision"
        /\ found[s].state = "Online"
        /\ found[r].state = "Offline"
        /\ found[s].conn = found[r].conn
        /\ conn[found[r].conn].state = "Offline"
        /\ socket[s] = "closed"
        /\ socket[r] = "closed"

\* ---------------------------------------------------------------- C5
TimesRegistered(conns, type, c) ==
    Cardinality({i \in 1..Len(BucketOf(conns, type)) :
                    BucketOf(conns, type)[i].conn = c})

\* The hello socket s processes in this step is not a reconnection and its
\* token has no entry of its type.
FreshHello(s) ==
    /\ HelloProcessed(s)
    /\ ~hello'[s].reconnection
    /\ EntryOf(connections, hello'[s].desiredConnectionType,
               hello'[s].reconnectionToken) = NoConn

\* C5 as stated: every non-reconnection Management or ExtensionHost hello
\* whose token had no entry of its type ends with one new logical
\* connection, registered.
C5_FreshHelloAlwaysRegisters ==
    \A s \in Sockets :
        (/\ pc[s] = "done"
         /\ hello[s] \in Hello
         /\ ~hello[s].reconnection
         /\ hello[s].desiredConnectionType \in {Management, ExtensionHost}
         /\ found[s] = NotFound)
        => /\ outcome[s] = "created"
           /\ conn[s].state \in {"Online", "Offline", "Closed"}

\* C5, amended: a fresh Management hello constructs one connection, fires
\* onDidClientConnect once and registers the connection under its token; a
\* fresh ExtensionHost hello constructs one connection and registers it when
\* its worker has started, and not at all when the worker fails; a fresh
\* Tunnel hello constructs and registers nothing; nothing else ever fires
\* onDidClientConnect, a reconnection included.
C5_FreshHelloRegistersOnce ==
    [][\A s \in Sockets :
          LET type == hello'[s].desiredConnectionType
              token == hello'[s].reconnectionToken
          IN  /\ (FreshHello(s) /\ type = Management)
                 => /\ outcome'[s] = "created"
                    /\ conn'[s] = [state |-> "Online", sock |-> s]
                    /\ created' = Append(created, s)
                    /\ EntryOf(connections', type, token) = s
                    /\ TimesRegistered(connections', type, s) = 1
                    /\ fired' = [fired EXCEPT ![s] = 1]
              /\ (FreshHello(s) /\ type = ExtensionHost)
                 => /\ pc'[s] = "spawning"
                    /\ conn'[s] = [state |-> "Connecting", sock |-> s]
                    /\ created' = Append(created, s)
                    /\ SameEntries(connections', connections)
              /\ (FreshHello(s) /\ type = Tunnel)
                 => /\ outcome'[s] = "tunnel"
                    /\ conn' = conn
                    /\ created' = created
                    /\ SameEntries(connections', connections)
              /\ (SpawnSettled(s) /\ outcome'[s] = "created")
                 => /\ conn'[s] = [state |-> "Online", sock |-> s]
                    /\ created' = created
                    /\ EntryOf(connections', type, token) = s
                    /\ TimesRegistered(connections', type, s) = 1
              /\ (SpawnSettled(s) /\ outcome'[s] # "created")
                 => /\ SameEntries(connections', connections)
                    /\ TimesRegistered(connections', type, s) = 0
              /\ ~(FreshHello(s) /\ type = Management)
                 => fired'[s] = fired[s]]_vars

C5_Witness ==
    \E c, r, e \in Sockets :
        /\ outcome[c] = "created"
        /\ hello[c].desiredConnectionType = Management
        /\ found[c] = NotFound
        /\ outcome[r] = "reconnected"
        /\ found[r].conn = c
        /\ conn[c] = [state |-> "Online", sock |-> r]
        /\ EntryOf(connections, Management, hello[c].reconnectionToken) = c
        /\ fired[c] = 1
        /\ fired[r] = 0
        /\ outcome[e] = "created"
        /\ hello[e].desiredConnectionType = ExtensionHost
        /\ EntryOf(connections, ExtensionHost, hello[e].reconnectionToken) = e

\* ---------------------------------------------------------------- C6
\* C6: no token is at once the key of an entry in two type buckets.
C6_TokenInOneBucket ==
    \A token \in Tokens :
        Cardinality({type \in DOMAIN connections :
                        MapHas(connections[type], token)}) <= 1

C8_OldestCreatedFirst ==
    [][\A s \in Sockets :
          LET type == hello'[s].desiredConnectionType
              before == SelectSeq(
                            MapValues(MapSet(BucketOf(connections, type),
                                             hello'[s].reconnectionToken, s)),
                            LAMBDA c : c # s /\ conn[c].state = "Offline")
              closed == {c \in Range(before) : conn'[c].state = "Closed"}
              retained == {c \in Range(before) : conn'[c].state = "Offline"}
              surplus == IF Len(before) > retention
                         THEN Len(before) - retention ELSE 0
          IN  Registered(s)
              => /\ Cardinality(closed) = surplus
                 /\ \A a \in closed, b \in retained : ~CreatedBefore(b, a)
                 /\ \A i, j \in 1..Len(evicted') :
                       i < j => CreatedBefore(evicted'[i], evicted'[j])]_vars

\* ---------------------------------------------------------------- C9
\* C9: when the worker of an ExtensionHost hello fails to start, the attempt
\* ends with SpawnFailure, its socket closed, and the registry holds no
\* entry for its token, so that a later fresh hello may use the token.
C9_SpawnFailureLeavesTokenFree ==
    [][\A s \in Sockets :
          (SpawnSettled(s) /\ outcome'[s] # "created")
          => /\ outcome'[s] = "SpawnFailure"
             /\ pc'[s] = "done"
             /\ socket'[s] = "closed"
             /\ EntryOf(connections', ExtensionHost,
                        hello[s].reconnectionToken) = NoConn]_vars

\* --------------------------------------------------------------- C10
\* C10: a hello whose desiredConnectionType is missing or outside the enum is
\* rejected with UnknownConnectionType: its socket is closed, no entry is
\* created and onDidClientConnect is not fired.
C10_UnknownTypeRejected ==
    [][\A s \in Sockets :
          (/\ HelloProcessed(s)
           /\ hello'[s].desiredConnectionType \in {"Missing", "Other"})
          => /\ outcome'[s] = "UnknownConnectionType"
             /\ pc'[s] = "done"
             /\ socket'[s] = "closed"
             /\ SameEntries(connections', connections)
             /\ conn' = conn
             /\ fired' = fired]_vars

\* --------------------------------------------------------------- C11
\* What socket s does in this step is what branch b of connect does: its
\* outcome and what it leaves in the registry.
BranchTaken(s, b) ==
    LET type == hello'[s].desiredConnectionType
        token == hello'[s].reconnectionToken
    IN  \/ /\ b \in Errors
           /\ outcome'[s] = b
           /\ pc'[s] = "done"
           /\ SameEntries(connections', connections)
           /\ conn' = conn
        \/ /\ b = "reconnect"
           /\ outcome'[s] = "reconnected"
           /\ connections' = connections
           /\ conn'[EntryOf(connections, type, token)] =
                  [state |-> "Online", sock |-> s]
        \/ /\ b = "Management"
           /\ outcome'[s] = "created"
           /\ EntryOf(connections', type, token) = s
           /\ conn'[s] = [state |-> "Online", sock |-> s]
        \/ /\ b = "ExtensionHost"
           /\ pc'[s] = "spawning"
           /\ SameEntries(connections', connections)
           /\ conn'[s] = [state |-> "Connecting", sock |-> s]
        \/ /\ b = "tunnel"
           /\ outcome'[s] = "tunnel"
           /\ SameEntries(connections', connections)
           /\ conn' = conn

\* C11: what a hello resolves to, and the registry it leaves, are what the
\* same hello resolves to and leaves when it carries any other commit, the
\* server's own included: the commit of the client decides nothing, whether
\* the server's build has a commit or not.
C11_VersionDecidesNothing ==
    [][\A s \in Sockets :
          HelloProcessed(s)
          => \A v \in ServerVersions \cup Commits :
                BranchTaken(s, connectBranch(
                                   [hello'[s] EXCEPT !.commit = v],
                                   EntryOf(connections,
                                           hello'[s].desiredConnectionType,
                                           hello'[s].reconnectionToken)))]_vars

C11_Witness ==
    \E s, r, q \in Sockets :
        /\ serverVersion \notin {NoCommit, hello[s].commit}
        /\ warned
        /\ outcome[s] = "created"
        /\ outcome[r] = "reconnected"
        /\ found[r].conn = s
        /\ conn[s] = [state |-> "Online", sock |-> r]
        /\ outcome[q] = "TokenCollision"
        /\ found[q].conn = s

\* --------------------------------------------------------------- C12
\* The step in which the attempt of socket s fails.
Fails(s) == outcome[s] = "none" /\ outcome'[s] \in Errors

\* C12: a failing attempt (no hello in time, UnknownConnectionType,
\* StaleSession, TokenCollision, SpawnFailure) ends with its own socket
\* closed and touches nothing else: every registry entry stays, every other
\* connection keeps its state and its socket, every other socket stays as
\* it is, and every other attempt stays where it is, the ones yet to arrive
\* included.
C12_FailureConfined ==
    [][\A s \in Sockets :
          Fails(s)
          => /\ pc'[s] = "done"
             /\ socket'[s] = "closed"
             /\ SameEntries(connections', connections)
             /\ \A c \in Sockets \ {s} : conn'[c] = conn[c]
             /\ conn'[s].state \in {"none", "Closed"}
             /\ \A r \in Sockets \ {s} :
                   /\ socket'[r] = socket[r]
                   /\ pc'[r] = pc[r]
                   /\ outcome'[r] = outcome[r]
             /\ fired' = fired]_vars

C12_Witness ==
    \E a, s, r \in Sockets :
        /\ outcome[a] = "created"
        /\ outcome[s] = "TokenCollision"
        /\ found[s] = [conn |-> a, state |-> "Offline"]
        /\ socket[s] = "closed"
        /\ s < r
        /\ outcome[r] = "reconnected"
        /\ found[r] = [conn |-> a, state |-> "Offline"]
        /\ conn[a] = [state |-> "Online", sock |-> r]
        /\ socket[r] = "open"
        /\ EntryOf(connections, hello[a].desiredConnectionType,
                   hello[a].reconnectionToken) = a

\* --------------------------------------------------------------- C13
\* C13: a logical connection has its registry entry from the moment its
\* fresh handshake succeeded until it is Closed: every Online or Offline
\* connection is the entry of its (type, token), and every entry refers to
\* an Online or Offline connection, none to a Closed one.
C13_EntryExactlyWhileLive ==
    /\ \A c \in Sockets :
          Live(c) => EntryOf(connections, hello[c].desiredConnectionType,
                             hello[c].reconnectionToken) = c
    /\ \A type \in DOMAIN connections :
          \A c \in Range(MapValues(connections[type])) :
              /\ Live(c)
              /\ hello[c].desiredConnectionType = type

\* --------------------------------------------------------------- C14
\* The step in which the upgrade handler runs for socket s.
Upgraded(s) == pc[s] = "idle" /\ pc'[s] # "idle"

BadRequestLine == "HTTP/1.1 400 Bad Request"

\* C14: an upgrade request without the sec-websocket-key header is refused:
\* 400 Bad Request is what is written, not a 101 response, the socket is
\* closed and no application handshake is started on it.
C14_MissingKeyRefused ==
    [][\A s \in Sockets :
          (Upgraded(s) /\ "sec-websocket-key" \notin DOMAIN request'.headers)
          => /\ response'.written = BadRequestLine
             /\ socket'[s] = "closed"
             /\ pc'[s] = "done"]_vars

\* --------------------------------------------------------------- C15
\* C15: an upgrade request whose upgrade header is not 'websocket', or that
\* has no url, or whose connection options do not parse, is answered with
\* 400 Bad Request and nothing else, and its socket is ended; the socket
\* never reaches handleWebSocket, then or later, and the registry and the
\* connections are as before.
C15_BadUpgradeRefused ==
    [][\A s \in Sockets :
          /\ (/\ Upgraded(s)
              /\ \/ "upgrade" \notin DOMAIN request'.headers
                 \/ request'.headers["upgrade"] # "websocket"
                 \/ request'.url = ""
                 \/ ~request'.parses)
             => /\ response' = [written |-> BadRequestLine,
                                permessageDeflate |-> FALSE]
                /\ outcome'[s] = "BadRequest"
                /\ socket'[s] = "closed"
                /\ pc'[s] = "done"
                /\ connections' = connections
                /\ conn' = conn
                /\ \A r \in Sockets \ {s} : socket'[r] = socket[r]
          /\ outcome[s] = "BadRequest"
             => /\ pc'[s] = "done"
                /\ socket'[s] = "closed"
                /\ hello'[s] = NoHello
                /\ conn'[s] = NoConnection]_vars

C15_Witness ==
    \E s, c \in Sockets :
        /\ outcome[s] = "BadRequest"
        /\ \A r \in Sockets : r > s => pc[r] = "idle"
        /\ request.headers = ("upgrade" :> "websocket")
                                 @@ ("sec-websocket-key" :> SampleKey)
        /\ request.url = ""
        /\ request.parses
        /\ response.written = BadRequestLine
        /\ socket[s] = "closed"
        /\ hello[s] = NoHello
        /\ conn[c] = [state |-> "Online", sock |-> c]
        /\ EntryOf(connections, hello[c].desiredConnectionType,
                   hello[c].reconnectionToken) = c

\* --------------------------------------------------------------- C16
\* C16: the Tunnel bucket never holds an entry; a Tunnel hello that is not
\* a reconnection starts a relay on its socket, whatever tokens were used
\* before, and constructs, registers and fires nothing; a Tunnel hello that
\* is a reconnection fails with StaleSession.
C16_TunnelNeverRegisters ==
    [][/\ BucketOf(connections', Tunnel) = <<>>
       /\ \A s \in Sockets :
             (HelloProcessed(s) /\ hello'[s].desiredConnectionType = Tunnel)
             => /\ pc'[s] = "done"
                /\ outcome'[s] = IF hello'[s].reconnection
                                 THEN "StaleSession" ELSE "tunnel"
                /\ socket'[s] = IF hello'[s].reconnection
                                THEN "closed" ELSE "open"
                /\ SameEntries(connections', connections)
                /\ conn' = conn
                /\ created' = created
                /\ fired' = fired]_vars

C16_Witness ==
    \E s, r, q \in Sockets :
        /\ s # r
        /\ outcome[s] = "tunnel"
        /\ outcome[r] = "tunnel"
        /\ hello[s].reconnectionToken = hello[r].reconnectionToken
        /\ socket[s] = "open"
        /\ socket[r] = "open"
        /\ hello[q].desiredConnectionType = Tunnel
        /\ hello[q].reconnectionToken = hello[s].reconnectionToken
        /\ hello[q].reconnection
        /\ outcome[q] = "StaleSession"
        /\ BucketOf(connections, Tunnel) = <<>>

\* --------------------------------------------------------------- C17
\* String.prototype.toLowerCase, for the comparison the claim is about.
UpperCase == "ABCDEFGHIJKLMNOPQRSTUVWXYZ"

LowerCase == "abcdefghijklmnopqrstuvwxyz"

RECURSIVE toLowerCase(_)
toLowerCase(string) ==
    IF string = "" THEN ""
    ELSE LET c == SubSeq(string, 1, 1)
             i == indexOf(UpperCase, c)
         IN  (IF i = -1 THEN c ELSE SubSeq(LowerCase, i + 1, i + 1))
                 \o toLowerCase(SubSeq(string, 2, Len(string)))

Contains(string, part) == indexOf(string, part) # -1

ExtensionLine ==
    "Sec-WebSocket-Extensions: permessage-deflate; server_max_window_bits=15\r\n"

\* C17: permessageDeflate is true exactly when the request carries an
\* extensions header that contains 'permessage-deflate' in any mix of upper
\* and lower case, and the response has the Sec-WebSocket-Extensions line
\* exactly when permessageDeflate is true.
C17_CompressionAnyCase ==
    response # NoResponse
    => /\ response.permessageDeflate
          <=> /\ "sec-websocket-extensions" \in DOMAIN request.headers
              /\ Contains(toLowerCase(
                              request.headers["sec-websocket-extensions"]),
                          "permessage-deflate")
       /\ Contains(response.written, ExtensionLine)
          <=> response.permessageDeflate

\* --------------------------------------------------------------- C19
\* The reference: base64(SHA-1(data)), as a text naming both.
RefSHA1(data) == "sha1(" \o data \o ")"

RefBase64(data) == "base64(" \o data \o ")"

\* The value of the Sec-WebSocket-Accept line of a response.
AcceptOf(written) ==
    LET name == "Sec-WebSocket-Accept: "
        from == indexOf(written, name) + Len(name) + 1
        rest == SubSeq(written, from, Len(written))
    IN  SubSeq(rest, 1, indexOf(rest, "\r\n"))

\* C19: for headers that carry a key, the Sec-WebSocket-Accept value of the
\* response is base64(SHA-1(key ++ '258EAFA5-E914-47DA-95CA-C5AB0DC85B11')),
\* and the result is the same whenever it is computed for the same headers,
\* whatever else the request is.
C19_AcceptIsDigestOfKeyAndMagic ==
    [][/\ (/\ response' # NoResponse
           /\ "sec-websocket-key" \in DOMAIN request'.headers)
          => /\ Contains(response'.written, "Sec-WebSocket-Accept: ")
             /\ AcceptOf(response'.written) =
                    RefBase64(RefSHA1(
                        request'.headers["sec-websocket-key"]
                            \o "258EAFA5-E914-47DA-95CA-C5AB0DC85B11"))
       /\ (response # NoResponse /\ request'.headers = request.headers)
          => response' = response]_vars

C19_Witness ==
    /\ "sec-websocket-key" \in DOMAIN request.headers
    /\ request.headers["sec-websocket-key"] = SampleKey
    /\ "sec-websocket-extensions" \in DOMAIN request.headers
    /\ request.url = ""
    /\ ~request.parses
    /\ response.permessageDeflate
    /\ AcceptOf(response.written) =
           "base64(sha1(dGhlIHNhbXBsZSBub25jZQ==258EAFA5-E914-47DA-95CA-C5AB0DC85B11))"

\* --------------------------------------------------------------- C18
Accepted(s) == outcome[s] \in {"created", "reconnected", "tunnel"}

Rejected(s) == outcome[s] \in Errors /\ socket[s] = "closed"

C20_EvictionConfined ==
    [][\A s \in Sockets :
          LET type == hello'[s].desiredConnectionType
              token == hello'[s].reconnectionToken
              set == MapSet(BucketOf(connections, type), token, s)
              closed == {c \in Sockets :
                            conn[c].state # "Closed" /\ conn'[c].state = "Closed"}
          IN  Registered(s)
              => /\ closed = Range(evicted')
                 /\ \A c \in closed :
                       /\ conn[c].state = "Offline"
                       /\ c # s
                       /\ c \in Range(MapValues(BucketOf(connections, type)))
                 /\ \A c \in Sockets \ (closed \cup {s}) : conn'[c] = conn[c]
                 /\ conn'[s] = [state |-> "Online", sock |-> s]
                 /\ EntryOf(connections', type, token) = s
                 /\ socket' = socket
                 /\ BucketOf(connections', type)
                        = SelectSeq(set, LAMBDA e : e.conn \notin closed)
                 /\ \A other \in DesiredTypes \ {type} :
                       BucketOf(connections', other)
                           = BucketOf(connections, other)]_vars

C20_Witness ==
    \E s, c, o \in Sockets :
        /\ outcome[s] = "created"
        /\ conn[s].state = "Online"
        /\ evicted = <<c>>
        /\ conn[c].state = "Closed"
        /\ o \notin {s, c}
        /\ conn[o].state = "Online"
        /\ hello[o].desiredConnectionType = hello[s].desiredConnectionType
        /\ hello[c].desiredConnectionType = hello[s].desiredConnectionType
        /\ {s, o} \subseteq
               Range(MapValues(connections[hello[s].desiredConnectionType]))

\* --------------------------------------------------------------- C21
\* Connection c is Offline and is the registry entry of its token.
OfflineEntry(cs, cn, c) ==
    /\ cn[c].state = "Offline"
    /\ EntryOf(cs, hello[c].desiredConnectionType,
               hello[c].reconnectionToken) = c

\* Connection c is live and is still the registry entry of its token.
KeepsEntry(c) ==
    /\ conn'[c].state \in {"Online", "Offline"}
    /\ EntryOf(connections', hello[c].desiredConnectionType,
               hello[c].reconnectionToken) = c

\* The step is connection.dispose() of c called from outside the broker.
ExplicitClose(c) ==
    /\ conn[c].state \in {"Online", "Offline"}
    /\ conn'[c].state = "Closed"
    /\ outcome' = outcome

\* The step registers a connection of the type of c.
RegisteredOfType(c) ==
    \E s \in Sockets \ {c} :
        /\ Registered(s)
        /\ hello'[s].desiredConnectionType = hello[c].desiredConnectionType

\* C21 as stated: an Offline entry stays a live entry of its token unless it
\* is closed explicitly or another connection of its type goes Offline in
\* the same step, and the registration of another connection of its type
\* leaves it an entry.
C21_OfflineStaysUntilNewerOffline ==
    [][\A c \in Sockets :
          OfflineEntry(connections, conn, c)
          => /\ \/ KeepsEntry(c)
                \/ ExplicitClose(c)
                \/ \E d \in Sockets \ {c} :
                      /\ hello[d].desiredConnectionType
                            = hello[c].desiredConnectionType
                      /\ conn[d].state = "Online"
                      /\ conn'[d].state = "Offline"
             /\ RegisteredOfType(c) => KeepsEntry(c)]_vars

\* --------------------------------------------------------------- C22
\* The step closes connection a: by connection.dispose() from outside, or
\* by the eviction pass.
Closes(a) == conn[a].state \in {"Online", "Offline"} /\ conn'[a].state = "Closed"

\* The step registers a connection under the type and token of b.
RegisteredOver(b) ==
    \E s \in Sockets \ {b} :
        /\ Registered(s)
        /\ hello'[s].desiredConnectionType = hello[b].desiredConnectionType
        /\ hello'[s].reconnectionToken = hello[b].reconnectionToken

\* C22: the close of a connection removes no entry but its own: a live
\* connection b that is the entry of its token, and is not closed itself,
\* is still the entry of its token after a step that closes another
\* connection a.
C22_CloseRemovesOwnEntryOnly ==
    [][\A a, b \in Sockets :
          ( /\ a # b
            /\ Closes(a)
            /\ ~Closes(b)
            /\ ~RegisteredOver(b)
            /\ Live(b)
            /\ EntryOf(connections, hello[b].desiredConnectionType,
                       hello[b].reconnectionToken) = b )
          => EntryOf(connections', hello[b].desiredConnectionType,
                     hello[b].reconnectionToken) = b]_vars

\* --------------------------------------------------------------- C23
\* C23: a reconnection hello is accepted only when the entry of its token is
\* Offline: when the entry is Online the attempt is not accepted as a
\* reconnection, the connection keeps the socket it is bound to, and that
\* socket stays open.
C23_ReconnectOnlyWhenOffline ==
    [][\A s \in Sockets :
          LET h == hello'[s]
              e == EntryOf(connections, h.desiredConnectionType,
                           h.reconnectionToken)
          IN  (/\ HelloProcessed(s)
               /\ h.reconnection
               /\ e # NoConn
               /\ conn[e].state = "Online")
              => /\ outcome'[s] # "reconnected"
                 /\ conn'[e] = conn[e]
                 /\ socket'[conn[e].sock] = socket[conn[e].sock]]_vars

====
